---------------------------- MODULE Spec2Model ----------------------------
(***************************************************************************)
(* Model of errors.go: the sentinel catalog, Wrap / sentinelError (Is,      *)
(* Unwrap, Error), multiError with the process-wide MultiErrorFormat, and  *)
(* the KError code table.                                                  *)
(*                                                                         *)
(* Error values are records tagged by their Go dynamic type:               *)
(*   [kind |-> "nil"]                        the nil error interface       *)
(*   [kind |-> "errorString", id |-> ..]     a pointer made by errors.New; *)
(*                                           id is the pointer's identity  *)
(*   [kind |-> "sentinelError", sentinel, wrapped]   the struct VALUE      *)
(*   [kind |-> "multierror", addr |-> a]     a *multierror.Error pointer   *)
(*                                           to heap[a]                    *)
(*   [kind |-> "chain", errs |-> <<..>>]     multierror's chain slice      *)
(* Go's == on two error interfaces is equality of these records: pointer   *)
(* identity for errorString and multierror, field-wise equality for the    *)
(* sentinelError struct.  A chain is a slice type and is not comparable.   *)
(*                                                                         *)
(* errors.go imports hashicorp/go-multierror (line 8) and the standard     *)
(* errors package (line 4); the operators that model what errors.go calls  *)
(* in them follow those packages' documented behaviour and are mapped to   *)
(* the call sites.                                                         *)
(***************************************************************************)
EXTENDS Integers, Sequences, FiniteSets, TLC

VARIABLES
    MultiErrorFormat,   \* the process-wide formatter variable (errors.go:70)
    heap,               \* the multierror.Error objects allocated so far
    made,               \* per Wrap call: the value returned and the policy in force
    sets,               \* how many times MultiErrorFormat has been assigned
    ret,                \* the last operation: its name, arguments and result
    kret                \* the last KError.Error call: the code and its message

vars == <<MultiErrorFormat, heap, made, sets, ret, kret>>

\* Most Wrap calls a behaviour makes.
MaxWraps == 2

\* Longest variadic argument list passed to Wrap.
MaxCauses == 3

\* Most errors all the aggregates of a behaviour hold together.
MaxCells == 5

\* Most assignments to MultiErrorFormat a behaviour makes.
MaxSets == 1

-----------------------------------------------------------------------------
(* Error values *)

Nil == [kind |-> "nil"]

ErrorString(i) == [kind |-> "errorString", id |-> i]

ErrOutOfBrokers == ErrorString("ErrOutOfBrokers")

ErrClosedClient == ErrorString("ErrClosedClient")

\* An error the hosting application made itself with errors.New, carrying the
\* same text as ErrOutOfBrokers: a different pointer, so a different identity.
HostError == ErrorString("hostError")

\* The text given to errors.New.
ErrorStringText(e) ==
    CASE e.id = "ErrOutOfBrokers" ->
           "kafka: client has run out of available brokers to talk to"
      [] e.id = "ErrClosedClient" ->
           "kafka: tried to use a client that was closed"
      [] e.id = "hostError" ->
           "kafka: client has run out of available brokers to talk to"

SentinelError(s, w) == [kind |-> "sentinelError", sentinel |-> s, wrapped |-> w]

MultiPtr(a) == [kind |-> "multierror", addr |-> a]

Chain(es) == [kind |-> "chain", errs |-> es]

\* reflect's Comparable() on the dynamic type, as errors.Is asks of its target.
Comparable(e) == e.kind # "chain"

-----------------------------------------------------------------------------
(* Formatting policies: the values MultiErrorFormat can hold *)

DefaultPolicy == "default"     \* the function literal of errors.go:70-83
NilPolicy     == "nil"         \* MultiErrorFormat = nil
CustomPolicy  == "custom"      \* a function assigned by the hosting application

Policies == {DefaultPolicy, NilPolicy, CustomPolicy}

\* Decimal digits of a natural number, as %d prints them.
RECURSIVE NatDigits(_)
NatDigits(n) ==
    IF n < 10 THEN SubSeq("0123456789", n + 1, n + 1)
    ELSE NatDigits(n \div 10) \o SubSeq("0123456789", (n % 10) + 1, (n % 10) + 1)

\* fmt's %d of a signed integer.
FormatInt(n) == IF n < 0 THEN "-" \o NatDigits(-n) ELSE NatDigits(n)

\* strings.Join
RECURSIVE Join(_, _)
Join(ss, sep) ==
    IF Len(ss) = 0 THEN ""
    ELSE IF Len(ss) = 1 THEN ss[1]
    ELSE ss[1] \o sep \o Join(Tail(ss), sep)

-----------------------------------------------------------------------------
(* Rendering: the Error() methods *)

RECURSIVE ErrorText(_, _)

\* points[i] = fmt.Sprintf("* %s", err)
Points(h, es) == [i \in 1..Len(es) |-> "* " \o ErrorText(h, es[i])]

\* The default without its single-error case: one error listed like many.
DefaultFormatNoSingleCase(h, es) ==
    FormatInt(Len(es)) \o " errors occurred:\n\t"
        \o Join(Points(h, es), "\n\t") \o "\n"

\* The default joining its points with a bare newline, the tab left out.
DefaultFormatNoIndent(h, es) ==
    IF Len(es) = 1 THEN ErrorText(h, es[1])
    ELSE FormatInt(Len(es)) \o " errors occurred:\n\t"
            \o Join(Points(h, es), "\n") \o "\n"

\* The initial value of MultiErrorFormat.
DefaultFormat(h, es) ==
    IF Len(es) = 1 THEN ErrorText(h, es[1])
    ELSE FormatInt(Len(es)) \o " errors occurred:\n\t"
            \o Join(Points(h, es), "\n\t") \o "\n"

\* multierror.ListFormatFunc, used by (*multierror.Error).Error when its
\* ErrorFormat field is nil.
ListFormatFunc(h, es) ==
    IF Len(es) = 1
    THEN "1 error occurred:\n\t* " \o ErrorText(h, es[1]) \o "\n\n"
    ELSE FormatInt(Len(es)) \o " errors occurred:\n\t"
            \o Join(Points(h, es), "\n\t") \o "\n\n"

\* The hosting application's own formatter: the texts between brackets.
CustomFormat(h, es) ==
    "[" \o Join([i \in 1..Len(es) |-> ErrorText(h, es[i])], "; ") \o "]"

\* Calling a value of type multierror.ErrorFormatFunc.
ApplyFormat(p, h, es) ==
    CASE p = DefaultPolicy -> DefaultFormat(h, es)
      [] p = CustomPolicy  -> CustomFormat(h, es)

\* (*multierror.Error).Error
MultiErrorText(h, a) ==
    IF h[a].ErrorFormat = NilPolicy
    THEN ListFormatFunc(h, h[a].Errors)
    ELSE ApplyFormat(h[a].ErrorFormat, h, h[a].Errors)

\* sentinelError.Error
SentinelErrorText(h, e) ==
    IF e.wrapped # Nil
    THEN ErrorText(h, e.sentinel) \o ": " \o ErrorText(h, e.wrapped)
    ELSE ErrorText(h, e.sentinel)

\* err.Error() by dynamic type.
ErrorText(h, e) ==
    CASE e.kind = "errorString"   -> ErrorStringText(e)
      [] e.kind = "sentinelError" -> SentinelErrorText(h, e)
      [] e.kind = "multierror"    -> MultiErrorText(h, e.addr)
      [] e.kind = "chain"         -> ErrorText(h, e.errs[1])

-----------------------------------------------------------------------------
(* Unwrap and Is *)

\* Unwrap handing back the sentinel field instead of the wrapped one.
SentinelErrorUnwrapSentinel(e) == e.sentinel

\* sentinelError.Unwrap
SentinelErrorUnwrap(e) == e.wrapped

\* (*multierror.Error).Unwrap
MultiErrorUnwrap(h, a) ==
    IF Len(h[a].Errors) = 0 THEN Nil
    ELSE IF Len(h[a].Errors) = 1 THEN h[a].Errors[1]
    ELSE Chain(h[a].Errors)

\* chain.Unwrap
ChainUnwrap(e) == IF Len(e.errs) = 1 THEN Nil ELSE Chain(Tail(e.errs))

\* errors.Unwrap: the type's Unwrap method if it has one, else nil.
ErrorsUnwrap(h, e) ==
    CASE e.kind = "sentinelError" -> SentinelErrorUnwrap(e)
      [] e.kind = "multierror"    -> MultiErrorUnwrap(h, e.addr)
      [] e.kind = "chain"         -> ChainUnwrap(e)
      [] OTHER                    -> Nil

RECURSIVE ErrorsIs(_, _, _)

\* Is looking through the wrapped error only, as Unwrap does.
SentinelErrorIsWrappedOnly(h, e, target) == ErrorsIs(h, e.wrapped, target)

\* sentinelError.Is
SentinelErrorIs(h, e, target) ==
    ErrorsIs(h, e.sentinel, target) \/ ErrorsIs(h, e.wrapped, target)

\* chain.Is
ChainIs(h, e, target) == ErrorsIs(h, e.errs[1], target)

\* errors.Is: equality, then the Is method, then Unwrap, until nil.
ErrorsIs(h, e, target) ==
    IF target = Nil THEN e = target
    ELSE IF e = Nil THEN FALSE
    ELSE IF Comparable(target) /\ e = target THEN TRUE
    ELSE IF e.kind = "sentinelError" /\ SentinelErrorIs(h, e, target) THEN TRUE
    ELSE IF e.kind = "chain" /\ ChainIs(h, e, target) THEN TRUE
    ELSE ErrorsIs(h, ErrorsUnwrap(h, e), target)

-----------------------------------------------------------------------------
(* Wrap and multiError *)

\* Append keeping a *multierror.Error argument as one element instead of
\* splicing its elements in.
RECURSIVE AppendErrorsNested(_, _)
AppendErrorsNested(h, errs) ==
    IF Len(errs) = 0 THEN <<>>
    ELSE LET e == Head(errs)
             rest == AppendErrorsNested(h, Tail(errs))
         IN  IF e.kind = "nil" THEN rest ELSE <<e>> \o rest

\* multierror.Append(nil, errs...): nil entries are dropped and the elements of
\* a *multierror.Error argument are spliced in.
RECURSIVE AppendErrors(_, _)
AppendErrors(h, errs) ==
    IF Len(errs) = 0 THEN <<>>
    ELSE LET e == Head(errs)
             rest == AppendErrors(h, Tail(errs))
         IN  CASE e.kind = "nil"        -> rest
               [] e.kind = "multierror" -> h[e.addr].Errors \o rest
               [] OTHER                 -> <<e>> \o rest

\* multiError without lines 112-114: ErrorFormat is left nil.
NewMultiErrorFormatUnset(h, policy, errs) ==
    [Errors |-> AppendErrors(h, errs), ErrorFormat |-> NilPolicy]

\* The object multiError builds: Append's result with ErrorFormat assigned
\* when MultiErrorFormat is not nil (a fresh Error's ErrorFormat is nil).
NewMultiError(h, policy, errs) ==
    [Errors |-> AppendErrors(h, errs), ErrorFormat |-> policy]

\* multiError returning merr itself, ErrorOrNil not called.
ErrorOrNilSkipped(h, a) == MultiPtr(a)

\* multiError handing a lone error back unwrapped.
ErrorOrNilPassthrough(h, a) ==
    IF Len(h[a].Errors) = 0 THEN Nil
    ELSE IF Len(h[a].Errors) = 1 THEN h[a].Errors[1]
    ELSE MultiPtr(a)

\* (*multierror.Error).ErrorOrNil for the object at address a.
ErrorOrNil(h, a) == IF Len(h[a].Errors) = 0 THEN Nil ELSE MultiPtr(a)

-----------------------------------------------------------------------------
(* KError: the numeric error codes and their messages *)

\* type KError int16
MinInt16 == -32768

MaxInt16 == 32767

Int16 == MinInt16..MaxInt16

\* The const block: numeric error codes returned by the Kafka server.
ErrNoError == 0

ErrUnknown == -1

ErrOffsetOutOfRange == 1

ErrInvalidMessage == 2

ErrUnknownTopicOrPartition == 3

ErrInvalidMessageSize == 4

ErrLeaderNotAvailable == 5

ErrNotLeaderForPartition == 6

ErrRequestTimedOut == 7

ErrBrokerNotAvailable == 8

ErrReplicaNotAvailable == 9

ErrMessageSizeTooLarge == 10

ErrStaleControllerEpochCode == 11

ErrOffsetMetadataTooLarge == 12

ErrNetworkException == 13

ErrOffsetsLoadInProgress == 14

ErrConsumerCoordinatorNotAvailable == 15

ErrNotCoordinatorForConsumer == 16

ErrInvalidTopic == 17

ErrMessageSetSizeTooLarge == 18

ErrNotEnoughReplicas == 19

ErrNotEnoughReplicasAfterAppend == 20

ErrInvalidRequiredAcks == 21

ErrIllegalGeneration == 22

ErrInconsistentGroupProtocol == 23

ErrInvalidGroupId == 24

ErrUnknownMemberId == 25

ErrInvalidSessionTimeout == 26

ErrRebalanceInProgress == 27

ErrInvalidCommitOffsetSize == 28

ErrTopicAuthorizationFailed == 29

ErrGroupAuthorizationFailed == 30

ErrClusterAuthorizationFailed == 31

ErrInvalidTimestamp == 32

ErrUnsupportedSASLMechanism == 33

ErrIllegalSASLState == 34

ErrUnsupportedVersion == 35

ErrTopicAlreadyExists == 36

ErrInvalidPartitions == 37

ErrInvalidReplicationFactor == 38

ErrInvalidReplicaAssignment == 39

ErrInvalidConfig == 40

ErrNotController == 41

ErrInvalidRequest == 42

ErrUnsupportedForMessageFormat == 43

ErrPolicyViolation == 44

ErrOutOfOrderSequenceNumber == 45

ErrDuplicateSequenceNumber == 46

ErrInvalidProducerEpoch == 47

ErrInvalidTxnState == 48

ErrInvalidProducerIDMapping == 49

ErrInvalidTransactionTimeout == 50

ErrConcurrentTransactions == 51

ErrTransactionCoordinatorFenced == 52

ErrTransactionalIDAuthorizationFailed == 53

ErrSecurityDisabled == 54

ErrOperationNotAttempted == 55

ErrKafkaStorageError == 56

ErrLogDirNotFound == 57

ErrSASLAuthenticationFailed == 58

ErrUnknownProducerID == 59

ErrReassignmentInProgress == 60

ErrDelegationTokenAuthDisabled == 61

ErrDelegationTokenNotFound == 62

ErrDelegationTokenOwnerMismatch == 63

ErrDelegationTokenRequestNotAllowed == 64

ErrDelegationTokenAuthorizationFailed == 65

ErrDelegationTokenExpired == 66

ErrInvalidPrincipalType == 67

ErrNonEmptyGroup == 68

ErrGroupIDNotFound == 69

ErrFetchSessionIDNotFound == 70

ErrInvalidFetchSessionEpoch == 71

ErrListenerNotFound == 72

ErrTopicDeletionDisabled == 73

ErrFencedLeaderEpoch == 74

ErrUnknownLeaderEpoch == 75

ErrUnsupportedCompressionType == 76

ErrStaleBrokerEpoch == 77

ErrOffsetNotAvailable == 78

ErrMemberIdRequired == 79

ErrPreferredLeaderNotAvailable == 80

ErrGroupMaxSizeReached == 81

ErrFencedInstancedId == 82

ErrEligibleLeadersNotAvailable == 83

ErrElectionNotNeeded == 84

ErrNoReassignmentInProgress == 85

ErrGroupSubscribedToTopic == 86

ErrInvalidRecord == 87

ErrUnstableOffsetCommit == 88

\* The cases of KError.Error's switch, in source order.
KErrorCases == <<
    [code |-> ErrNoError, text |->
        "kafka server: Not an error, why are you printing me?"],
    [code |-> ErrUnknown, text |->
        "kafka server: Unexpected (unknown?) server error"],
    [code |-> ErrOffsetOutOfRange, text |->
        "kafka server: The requested offset is outside the range of offsets maintained by the server for the given topic/partition"],
    [code |-> ErrInvalidMessage, text |->
        "kafka server: Message contents does not match its CRC"],
    [code |-> ErrUnknownTopicOrPartition, text |->
        "kafka server: Request was for a topic or partition that does not exist on this broker"],
    [code |-> ErrInvalidMessageSize, text |->
        "kafka server: The message has a negative size"],
    [code |-> ErrLeaderNotAvailable, text |->
        "kafka server: In the middle of a leadership election, there is currently no leader for this partition and hence it is unavailable for writes"],
    [code |-> ErrNotLeaderForPartition, text |->
        "kafka server: Tried to send a message to a replica that is not the leader for some partition. Your metadata is out of date"],
    [code |-> ErrRequestTimedOut, text |->
        "kafka server: Request exceeded the user-specified time limit in the request"],
    [code |-> ErrBrokerNotAvailable, text |->
        "kafka server: Broker not available. Not a client facing error, we should never receive this!!!"],
    [code |-> ErrReplicaNotAvailable, text |->
        "kafka server: Replica information not available, one or more brokers are down"],
    [code |-> ErrMessageSizeTooLarge, text |->
        "kafka server: Message was too large, server rejected it to avoid allocation error"],
    [code |-> ErrStaleControllerEpochCode, text |->
        "kafka server: StaleControllerEpochCode (internal error code for broker-to-broker communication)"],
    [code |-> ErrOffsetMetadataTooLarge, text |->
        "kafka server: Specified a string larger than the configured maximum for offset metadata"],
    [code |-> ErrNetworkException, text |->
        "kafka server: The server disconnected before a response was received"],
    [code |-> ErrOffsetsLoadInProgress, text |->
        "kafka server: The broker is still loading offsets after a leader change for that offset's topic partition"],
    [code |-> ErrConsumerCoordinatorNotAvailable, text |->
        "kafka server: Offset's topic has not yet been created"],
    [code |-> ErrNotCoordinatorForConsumer, text |->
        "kafka server: Request was for a consumer group that is not coordinated by this broker"],
    [code |-> ErrInvalidTopic, text |->
        "kafka server: The request attempted to perform an operation on an invalid topic"],
    [code |-> ErrMessageSetSizeTooLarge, text |->
        "kafka server: The request included message batch larger than the configured segment size on the server"],
    [code |-> ErrNotEnoughReplicas, text |->
        "kafka server: Messages are rejected since there are fewer in-sync replicas than required"],
    [code |-> ErrNotEnoughReplicasAfterAppend, text |->
        "kafka server: Messages are written to the log, but to fewer in-sync replicas than required"],
    [code |-> ErrInvalidRequiredAcks, text |->
        "kafka server: The number of required acks is invalid (should be either -1, 0, or 1)"],
    [code |-> ErrIllegalGeneration, text |->
        "kafka server: The provided generation id is not the current generation"],
    [code |-> ErrInconsistentGroupProtocol, text |->
        "kafka server: The provider group protocol type is incompatible with the other members"],
    [code |-> ErrInvalidGroupId, text |->
        "kafka server: The provided group id was empty"],
    [code |-> ErrUnknownMemberId, text |->
        "kafka server: The provided member is not known in the current generation"],
    [code |-> ErrInvalidSessionTimeout, text |->
        "kafka server: The provided session timeout is outside the allowed range"],
    [code |-> ErrRebalanceInProgress, text |->
        "kafka server: A rebalance for the group is in progress. Please re-join the group"],
    [code |-> ErrInvalidCommitOffsetSize, text |->
        "kafka server: The provided commit metadata was too large"],
    [code |-> ErrTopicAuthorizationFailed, text |->
        "kafka server: The client is not authorized to access this topic"],
    [code |-> ErrGroupAuthorizationFailed, text |->
        "kafka server: The client is not authorized to access this group"],
    [code |-> ErrClusterAuthorizationFailed, text |->
        "kafka server: The client is not authorized to send this request type"],
    [code |-> ErrInvalidTimestamp, text |->
        "kafka server: The timestamp of the message is out of acceptable range"],
    [code |-> ErrUnsupportedSASLMechanism, text |->
        "kafka server: The broker does not support the requested SASL mechanism"],
    [code |-> ErrIllegalSASLState, text |->
        "kafka server: Request is not valid given the current SASL state"],
    [code |-> ErrUnsupportedVersion, text |->
        "kafka server: The version of API is not supported"],
    [code |-> ErrTopicAlreadyExists, text |->
        "kafka server: Topic with this name already exists"],
    [code |-> ErrInvalidPartitions, text |->
        "kafka server: Number of partitions is invalid"],
    [code |-> ErrInvalidReplicationFactor, text |->
        "kafka server: Replication-factor is invalid"],
    [code |-> ErrInvalidReplicaAssignment, text |->
        "kafka server: Replica assignment is invalid"],
    [code |-> ErrInvalidConfig, text |->
        "kafka server: Configuration is invalid"],
    [code |-> ErrNotController, text |->
        "kafka server: This is not the correct controller for this cluster"],
    [code |-> ErrInvalidRequest, text |->
        "kafka server: This most likely occurs because of a request being malformed by the client library or the message was sent to an incompatible broker. See the broker logs for more details"],
    [code |-> ErrUnsupportedForMessageFormat, text |->
        "kafka server: The requested operation is not supported by the message format version"],
    [code |-> ErrPolicyViolation, text |->
        "kafka server: Request parameters do not satisfy the configured policy"],
    [code |-> ErrOutOfOrderSequenceNumber, text |->
        "kafka server: The broker received an out of order sequence number"],
    [code |-> ErrDuplicateSequenceNumber, text |->
        "kafka server: The broker received a duplicate sequence number"],
    [code |-> ErrInvalidProducerEpoch, text |->
        "kafka server: Producer attempted an operation with an old epoch"],
    [code |-> ErrInvalidTxnState, text |->
        "kafka server: The producer attempted a transactional operation in an invalid state"],
    [code |-> ErrInvalidProducerIDMapping, text |->
        "kafka server: The producer attempted to use a producer id which is not currently assigned to its transactional id"],
    [code |-> ErrInvalidTransactionTimeout, text |->
        "kafka server: The transaction timeout is larger than the maximum value allowed by the broker (as configured by max.transaction.timeout.ms)"],
    [code |-> ErrConcurrentTransactions, text |->
        "kafka server: The producer attempted to update a transaction while another concurrent operation on the same transaction was ongoing"],
    [code |-> ErrTransactionCoordinatorFenced, text |->
        "kafka server: The transaction coordinator sending a WriteTxnMarker is no longer the current coordinator for a given producer"],
    [code |-> ErrTransactionalIDAuthorizationFailed, text |->
        "kafka server: Transactional ID authorization failed"],
    [code |-> ErrSecurityDisabled, text |->
        "kafka server: Security features are disabled"],
    [code |-> ErrOperationNotAttempted, text |->
        "kafka server: The broker did not attempt to execute this operation"],
    [code |-> ErrKafkaStorageError, text |->
        "kafka server: Disk error when trying to access log file on the disk"],
    [code |-> ErrLogDirNotFound, text |->
        "kafka server: The specified log directory is not found in the broker config"],
    [code |-> ErrSASLAuthenticationFailed, text |->
        "kafka server: SASL Authentication failed"],
    [code |-> ErrUnknownProducerID, text |->
        "kafka server: The broker could not locate the producer metadata associated with the Producer ID"],
    [code |-> ErrReassignmentInProgress, text |->
        "kafka server: A partition reassignment is in progress"],
    [code |-> ErrDelegationTokenAuthDisabled, text |->
        "kafka server: Delegation Token feature is not enabled"],
    [code |-> ErrDelegationTokenNotFound, text |->
        "kafka server: Delegation Token is not found on server"],
    [code |-> ErrDelegationTokenOwnerMismatch, text |->
        "kafka server: Specified Principal is not valid Owner/Renewer"],
    [code |-> ErrDelegationTokenRequestNotAllowed, text |->
        "kafka server: Delegation Token requests are not allowed on PLAINTEXT/1-way SSL channels and on delegation token authenticated channels"],
    [code |-> ErrDelegationTokenAuthorizationFailed, text |->
        "kafka server: Delegation Token authorization failed"],
    [code |-> ErrDelegationTokenExpired, text |->
        "kafka server: Delegation Token is expired"],
    [code |-> ErrInvalidPrincipalType, text |->
        "kafka server: Supplied principalType is not supported"],
    [code |-> ErrNonEmptyGroup, text |->
        "kafka server: The group is not empty"],
    [code |-> ErrGroupIDNotFound, text |->
        "kafka server: The group id does not exist"],
    [code |-> ErrFetchSessionIDNotFound, text |->
        "kafka server: The fetch session ID was not found"],
    [code |-> ErrInvalidFetchSessionEpoch, text |->
        "kafka server: The fetch session epoch is invalid"],
    [code |-> ErrListenerNotFound, text |->
        "kafka server: There is no listener on the leader broker that matches the listener on which metadata request was processed"],
    [code |-> ErrTopicDeletionDisabled, text |->
        "kafka server: Topic deletion is disabled"],
    [code |-> ErrFencedLeaderEpoch, text |->
        "kafka server: The leader epoch in the request is older than the epoch on the broker"],
    [code |-> ErrUnknownLeaderEpoch, text |->
        "kafka server: The leader epoch in the request is newer than the epoch on the broker"],
    [code |-> ErrUnsupportedCompressionType, text |->
        "kafka server: The requesting client does not support the compression type of given partition"],
    [code |-> ErrStaleBrokerEpoch, text |->
        "kafka server: Broker epoch has changed"],
    [code |-> ErrOffsetNotAvailable, text |->
        "kafka server: The leader high watermark has not caught up from a recent leader election so the offsets cannot be guaranteed to be monotonically increasing"],
    [code |-> ErrMemberIdRequired, text |->
        "kafka server: The group member needs to have a valid member id before actually entering a consumer group"],
    [code |-> ErrPreferredLeaderNotAvailable, text |->
        "kafka server: The preferred leader was not available"],
    [code |-> ErrGroupMaxSizeReached, text |->
        "kafka server: Consumer group The consumer group has reached its max size. already has the configured maximum number of members"],
    [code |-> ErrFencedInstancedId, text |->
        "kafka server: The broker rejected this static consumer since another consumer with the same group.instance.id has registered with a different member.id"],
    [code |-> ErrEligibleLeadersNotAvailable, text |->
        "kafka server: Eligible topic partition leaders are not available"],
    [code |-> ErrElectionNotNeeded, text |->
        "kafka server: Leader election not needed for topic partition"],
    [code |-> ErrNoReassignmentInProgress, text |->
        "kafka server: No partition reassignment is in progress"],
    [code |-> ErrGroupSubscribedToTopic, text |->
        "kafka server: Deleting offsets of a topic is forbidden while the consumer group is actively subscribed to it"],
    [code |-> ErrInvalidRecord, text |->
        "kafka server: This record has failed the validation on broker and hence will be rejected"],
    [code |-> ErrUnstableOffsetCommit, text |->
        "kafka server: There are unstable offsets that need to be cleared"]
    >>

\* The return after the switch: fmt.Sprintf with %d of the code.
KErrorFallback(err) ==
    "Unknown error, how did this happen? Error code = " \o FormatInt(err)

\* switch err over the given cases, falling through to the last return.
KErrorSwitch(cases, err) ==
    LET hits == {i \in 1..Len(cases) : cases[i].code = err}
    IN  IF hits = {} THEN KErrorFallback(err)
        ELSE cases[CHOOSE i \in hits : \A j \in hits : i <= j].text

\* The switch with the ErrUnknown case left out, so that -1 takes the fallback.
KErrorTextNoUnknownCase(err) ==
    KErrorSwitch(SelectSeq(KErrorCases, LAMBDA c : c.code # ErrUnknown), err)

\* The switch with one case's message pasted from the case above it.
KErrorTextPastedMessage(err) ==
    KErrorSwitch([i \in 1..Len(KErrorCases) |->
                     IF KErrorCases[i].code = ErrGroupAuthorizationFailed
                     THEN [KErrorCases[i] EXCEPT !.text = KErrorCases[i - 1].text]
                     ELSE KErrorCases[i]], err)

\* KError.Error
KErrorText(err) == KErrorSwitch(KErrorCases, err)

-----------------------------------------------------------------------------
(* The state machine *)

NoRet == [op |-> "none"]

Init ==
    /\ MultiErrorFormat = DefaultPolicy
    /\ heap = <<>>
    /\ made = <<>>
    /\ sets = 0
    /\ ret = NoRet
    /\ kret = NoRet

\* The sentinels call sites pass to Wrap.
Sentinels == {ErrOutOfBrokers, ErrClosedClient}

\* The values Wrap has returned.
Wrapped == {made[i].val : i \in 1..Len(made)}

\* The aggregates multiError has returned.
Aggregates ==
    {MultiPtr(a) : a \in {b \in 1..Len(heap) : Len(heap[b].Errors) > 0}}

\* The errors the program holds and passes on as causes.
Held == Sentinels \cup Wrapped \cup Aggregates

\* What a caller may ask Is about: what it holds, and its own error.
Targets == Held \cup {HostError}

\* The error the caller has in hand: what the last Wrap returned.
Returned == IF made = <<>> THEN {} ELSE {made[Len(made)].val}

\* Its wrapped error, when it has one.
ReturnedCause == {e.wrapped : e \in {x \in Returned : x.wrapped # Nil}}

\* What errors.Unwrap is applied to: the error in hand, its wrapped error,
\* and whatever the last Unwrap returned.
Unwrappable ==
    Returned \cup ReturnedCause
        \cup (IF ret.op = "Unwrap" /\ ret.val # Nil THEN {ret.val} ELSE {})

CauseLists ==
    UNION {[1..n -> Held \cup {Nil}] : n \in 0..MaxCauses}

\* The errors held by the first n aggregates of h together.
RECURSIVE Cells(_, _)
Cells(h, n) == IF n = 0 THEN 0 ELSE Len(h[n].Errors) + Cells(h, n - 1)

\* Wrap folding the causes with multierror.Append(wrapped[0], wrapped[1:]...):
\* a leading aggregate is grown in place before the result is built.
WrapAppendingInPlace(sentinel, wrapped) ==
    /\ Len(heap) < MaxWraps
    /\ Cells(heap, Len(heap)) + Len(AppendErrors(heap, wrapped)) <= MaxCells
    /\ LET a == Len(heap) + 1
           grown == IF wrapped # <<>> /\ wrapped[1].kind = "multierror"
                    THEN [heap EXCEPT ![wrapped[1].addr].Errors =
                                          AppendErrors(heap, wrapped)]
                    ELSE heap
           h == Append(grown, NewMultiError(heap, MultiErrorFormat, wrapped))
           v == SentinelError(sentinel, ErrorOrNil(h, a))
       IN  /\ heap' = h
           /\ made' = Append(made, [val |-> v, policy |-> MultiErrorFormat])
           /\ ret' = [op |-> "Wrap", sentinel |-> sentinel,
                      causes |-> wrapped, val |-> v]
    /\ UNCHANGED <<MultiErrorFormat, sets, kret>>

\* Wrap(sentinel, wrapped...)
Wrap(sentinel, wrapped) ==
    /\ Len(heap) < MaxWraps
    /\ Cells(heap, Len(heap)) + Len(AppendErrors(heap, wrapped)) <= MaxCells
    /\ LET a == Len(heap) + 1
           h == Append(heap, NewMultiError(heap, MultiErrorFormat, wrapped))
           v == SentinelError(sentinel, ErrorOrNil(h, a))
       IN  /\ heap' = h
           /\ made' = Append(made, [val |-> v, policy |-> MultiErrorFormat])
           /\ ret' = [op |-> "Wrap", sentinel |-> sentinel,
                      causes |-> wrapped, val |-> v]
    /\ UNCHANGED <<MultiErrorFormat, sets, kret>>

\* errors.Unwrap(err)
Unwrap(err) ==
    /\ ret' = [op |-> "Unwrap", err |-> err, val |-> ErrorsUnwrap(heap, err)]
    /\ UNCHANGED <<MultiErrorFormat, heap, made, sets, kret>>

\* err.Is(target) on a value Wrap returned
Is(err, target) ==
    /\ ret' = [op |-> "Is", err |-> err, target |-> target,
               val |-> SentinelErrorIs(heap, err, target)]
    /\ UNCHANGED <<MultiErrorFormat, heap, made, sets, kret>>

\* Error binding the aggregate to the formatter current at render time: the
\* text is produced, then ErrorFormat is overwritten with MultiErrorFormat.
RenderRebinding(err) ==
    /\ ret' = [op |-> "Render", err |-> err, text |-> ErrorText(heap, err),
               prior |-> IF ret.op = "Render" /\ ret.err = err
                         THEN <<ret.text>> ELSE <<>>]
    /\ heap' = IF err.kind = "sentinelError" /\ err.wrapped # Nil
               THEN [heap EXCEPT ![err.wrapped.addr].ErrorFormat = MultiErrorFormat]
               ELSE heap
    /\ UNCHANGED <<MultiErrorFormat, made, sets, kret>>

\* err.Error().  prior holds the text of the render just before, when that
\* was a render of the same error.
Render(err) ==
    /\ ret' = [op |-> "Render", err |-> err, text |-> ErrorText(heap, err),
               prior |-> IF ret.op = "Render" /\ ret.err = err
                         THEN <<ret.text>> ELSE <<>>]
    /\ UNCHANGED <<MultiErrorFormat, heap, made, sets, kret>>

\* MultiErrorFormat = f
SetFormat(p) ==
    /\ sets < MaxSets
    /\ MultiErrorFormat' = p
    /\ sets' = sets + 1
    /\ ret' = [op |-> "SetFormat", policy |-> p]
    /\ UNCHANGED <<heap, made, kret>>

Next ==
    \/ \E s \in Sentinels, cs \in CauseLists : Wrap(s, cs)
    \/ \E e \in Unwrappable : Unwrap(e)
    \/ \E e \in Returned, t \in Targets : Is(e, t)
    \/ \E e \in Returned \cup ReturnedCause : Render(e)
    \/ \E p \in Policies : SetFormat(p)

Spec == Init /\ [][Next]_vars

\* A KError value received from a broker, not yet rendered.
InitKError ==
    /\ MultiErrorFormat = DefaultPolicy
    /\ heap = <<>>
    /\ made = <<>>
    /\ sets = 0
    /\ ret = NoRet
    /\ \E code \in Int16 : kret = [op |-> "received", code |-> code]

\* err.Error() on the KError received
KErrorError ==
    /\ kret.op = "received"
    /\ kret' = [op |-> "Error", code |-> kret.code, text |-> KErrorText(kret.code)]
    /\ UNCHANGED <<MultiErrorFormat, heap, made, sets, ret>>

NextKError == KErrorError

\* The code table on its own: every int16 value rendered.
SpecKError == InitKError /\ [][NextKError]_vars

-----------------------------------------------------------------------------
(* Properties *)

\* The causes left once the absent entries are dropped.
Present(causes) == SelectSeq(causes, LAMBDA c : c # Nil)

\* Every comparable error inside e: e itself, the sentinel and the wrapped
\* error of a sentinelError, every element of an aggregate, and so on down.
RECURSIVE Reachable(_, _)
Reachable(h, e) ==
    CASE e.kind = "nil"           -> {}
      [] e.kind = "errorString"   -> {e}
      [] e.kind = "sentinelError" ->
            {e} \cup Reachable(h, e.sentinel) \cup Reachable(h, e.wrapped)
      [] e.kind = "multierror"    ->
            {e} \cup UNION {Reachable(h, h[e.addr].Errors[i]) :
                               i \in 1..Len(h[e.addr].Errors)}
      [] e.kind = "chain"         ->
            UNION {Reachable(h, e.errs[i]) : i \in 1..Len(e.errs)}

\* The errors met by calling errors.Unwrap again and again from e: each
\* result, and for a chain the error it stands for.
RECURSIVE Visited(_, _)
Visited(h, e) ==
    IF e = Nil THEN {}
    ELSE (IF e.kind = "chain" THEN {e.errs[1]} ELSE {e})
            \cup Visited(h, ErrorsUnwrap(h, e))

\* What formatter p makes of the errors es; a nil formatter leaves the
\* library's list format.
PolicyText(p, h, es) ==
    IF p = NilPolicy THEN ListFormatFunc(h, es) ELSE ApplyFormat(p, h, es)

\* One indented, bulleted line per text.
RECURSIVE BulletLines(_)
BulletLines(ts) ==
    IF Len(ts) = 0 THEN "" ELSE "\n\t* " \o ts[1] \o BulletLines(Tail(ts))

\* The text the default policy is said to give Wrap(s, cs...), cs non-absent.
DefaultWrapText(h, s, cs) ==
    IF Len(cs) = 1 THEN ErrorStringText(s) \o ": " \o ErrorText(h, cs[1])
    ELSE ErrorStringText(s) \o ": " \o ToString(Len(cs)) \o " errors occurred:"
            \o BulletLines([i \in 1..Len(cs) |-> ErrorText(h, cs[i])]) \o "\n"

\* C1: err.Is(target), for err returned by Wrap and a non-absent target, is
\* true exactly when target is the sentinel or is some error reachable through
\* the wrapped error: the aggregate, its elements, and inside nested wraps
\* their sentinels and causes.  Equality is identity: another error with the
\* sentinel's text does not match.
C1_IsIffReachable ==
    ret.op = "Is" =>
        ret.val = (\/ ret.target = ret.err.sentinel
                   \/ ret.target \in Reachable(heap, ret.err.wrapped))

\* Is answered true for a target that is neither the sentinel nor a direct
\* element of the aggregate: it lies inside a nested wrap.
C1_Witness ==
    /\ ret.op = "Is"
    /\ ret.val = TRUE
    /\ ret.err.wrapped # Nil
    /\ ret.target # ret.err.sentinel
    /\ ret.target # ret.err.wrapped
    /\ \A i \in 1..Len(heap[ret.err.wrapped.addr].Errors) :
           heap[ret.err.wrapped.addr].Errors[i] # ret.target

\* C2: Wrap with no cause, or with absent causes only, has no wrapped error:
\* Unwrap gives nil and the text is the sentinel's text alone.
C2_NoCauseNoError ==
    /\ (ret.op = "Wrap" /\ Present(ret.causes) = <<>>) =>
           /\ ret.val.wrapped = Nil
           /\ ErrorsUnwrap(heap, ret.val) = Nil
           /\ ErrorText(heap, ret.val) = ErrorStringText(ret.sentinel)
    /\ (ret.op = "Unwrap" /\ ret.err.kind = "sentinelError"
            /\ ret.err.wrapped = Nil) => ret.val = Nil
    /\ (ret.op = "Render" /\ ret.err.kind = "sentinelError"
            /\ ret.err.wrapped = Nil) =>
           ret.text = ErrorStringText(ret.err.sentinel)

\* Wrap was called with two absent causes and returned a bare sentinel.
C2_Witness ==
    /\ ret.op = "Wrap"
    /\ ret.causes = <<Nil, Nil>>
    /\ ret.val.wrapped = Nil

\* C3 as claimed: with one cause c left, the wrapped error is c itself and
\* Unwrap gives c.
C3_SingleCauseIsCause ==
    (ret.op = "Wrap" /\ Len(Present(ret.causes)) = 1) =>
        /\ ret.val.wrapped = Present(ret.causes)[1]
        /\ ErrorsUnwrap(heap, ret.val) = Present(ret.causes)[1]

\* C3 amended: with one cause c left, the wrapped error is a new aggregate,
\* not c: it holds c alone, or c's elements when c is an aggregate, and
\* unwrapping it gives c when c is not an aggregate.
C3_SingleCauseAggregate ==
    (ret.op = "Wrap" /\ Len(Present(ret.causes)) = 1) =>
        LET c == Present(ret.causes)[1]
            w == ret.val.wrapped
        IN  /\ w = MultiPtr(Len(heap))
            /\ w # c
            /\ ErrorsUnwrap(heap, ret.val) = w
            /\ c.kind # "multierror" =>
                   /\ heap[w.addr].Errors = <<c>>
                   /\ ErrorsUnwrap(heap, w) = c
            /\ c.kind = "multierror" =>
                   heap[w.addr].Errors = heap[c.addr].Errors

\* Wrap was called with one error that is not an aggregate.
C3_Witness ==
    /\ ret.op = "Wrap"
    /\ Len(Present(ret.causes)) = 1
    /\ Present(ret.causes)[1].kind = "sentinelError"
    /\ ret.val.wrapped.kind = "multierror"

\* C4 as claimed: a wrap of several causes renders under the policy current
\* when it is rendered.
C4_RenderTimePolicy ==
    (ret.op = "Render" /\ ret.err.kind = "sentinelError" /\ ret.err.wrapped # Nil
        /\ Len(heap[ret.err.wrapped.addr].Errors) >= 2) =>
        ret.text = ErrorStringText(ret.err.sentinel) \o ": "
                      \o PolicyText(MultiErrorFormat, heap,
                                    heap[ret.err.wrapped.addr].Errors)

\* C4 amended: a wrap of several causes renders under the policy that was
\* current when Wrap was called, whatever MultiErrorFormat holds at render
\* time; a nil policy at that time leaves the library's list format.
C4_WrapTimePolicy ==
    (ret.op = "Render" /\ ret.err.kind = "sentinelError" /\ ret.err.wrapped # Nil
        /\ Len(heap[ret.err.wrapped.addr].Errors) >= 2) =>
        ret.text = ErrorStringText(ret.err.sentinel) \o ": "
                      \o PolicyText(made[ret.err.wrapped.addr].policy, heap,
                                    heap[ret.err.wrapped.addr].Errors)

\* A wrap of three causes made under the default policy was rendered after
\* MultiErrorFormat was set to the custom formatter.
C4_Witness ==
    /\ ret.op = "Render"
    /\ ret.err.kind = "sentinelError"
    /\ ret.err.wrapped # Nil
    /\ Len(heap[ret.err.wrapped.addr].Errors) = 3
    /\ made[ret.err.wrapped.addr].policy = DefaultPolicy
    /\ MultiErrorFormat = CustomPolicy

\* C5: Unwrap of a wrap gives its wrapped error only.  When the sentinel does
\* not occur among or inside the causes, unwrapping again and again from there
\* never meets the sentinel, and Is of the sentinel is true all the same.
C5_UnwrapSkipsSentinel ==
    /\ (ret.op = "Wrap"
            /\ \A i \in 1..Len(ret.causes) :
                   ret.sentinel \notin Reachable(heap, ret.causes[i])) =>
           /\ ret.sentinel \notin Visited(heap, ErrorsUnwrap(heap, ret.val))
           /\ SentinelErrorIs(heap, ret.val, ret.sentinel)
    /\ (ret.op = "Unwrap" /\ ret.err.kind = "sentinelError") =>
           /\ ret.val = ret.err.wrapped
           /\ ret.err.sentinel \notin Reachable(heap, ret.err.wrapped) =>
                  ret.err.sentinel \notin Visited(heap, ret.val)
    /\ (ret.op = "Is" /\ ret.target = ret.err.sentinel) => ret.val = TRUE

\* Unwrap of a wrap of several causes, none holding the sentinel, was taken.
C5_Witness ==
    /\ ret.op = "Unwrap"
    /\ ret.err.kind = "sentinelError"
    /\ ret.val.kind = "multierror"
    /\ Len(heap[ret.val.addr].Errors) >= 2
    /\ ret.err.sentinel \notin Reachable(heap, ret.err.wrapped)

\* C6 as claimed: with the default policy in MultiErrorFormat, Wrap(S, c)
\* reads "S: c" and Wrap(S, c1..cn), n >= 2 causes present, reads "S: " then
\* "n errors occurred:" and one bulleted line per cause, in order.
C6_DefaultText ==
    (ret.op = "Wrap" /\ MultiErrorFormat = DefaultPolicy
        /\ Len(Present(ret.causes)) >= 1) =>
        ErrorText(heap, ret.val)
            = DefaultWrapText(heap, ret.sentinel, Present(ret.causes))

\* C6 amended: the same, for causes none of which is itself an aggregate (an
\* aggregate passed as a cause is spliced, and its elements are counted and
\* listed one by one), the default policy being the one in MultiErrorFormat
\* when Wrap is called.
C6_DefaultTextNoAggregateCause ==
    (ret.op = "Wrap" /\ MultiErrorFormat = DefaultPolicy
        /\ Len(Present(ret.causes)) >= 1
        /\ \A i \in 1..Len(ret.causes) : ret.causes[i].kind # "multierror") =>
        ErrorText(heap, ret.val)
            = DefaultWrapText(heap, ret.sentinel, Present(ret.causes))

\* Wrap was called under the default policy with two errors and an absent
\* entry between them.
C6_Witness ==
    /\ ret.op = "Wrap"
    /\ MultiErrorFormat = DefaultPolicy
    /\ Len(ret.causes) = 3
    /\ ret.causes[1] # Nil /\ ret.causes[2] = Nil /\ ret.causes[3] # Nil
    /\ ret.causes[1] # ret.causes[3]
    /\ ret.causes[1].kind # "multierror" /\ ret.causes[3].kind # "multierror"

\* C7 as claimed: whatever MultiErrorFormat holds, Wrap(S, c) with one cause
\* reads "S: c".
C7_SingleCauseTextAnyPolicy ==
    (ret.op = "Wrap" /\ Len(Present(ret.causes)) = 1) =>
        ErrorText(heap, ret.val)
            = ErrorStringText(ret.sentinel) \o ": "
                 \o ErrorText(heap, Present(ret.causes)[1])

\* C7 amended: Wrap(S, c) with one cause reads "S: c" when MultiErrorFormat
\* held the default policy as Wrap was called and c is not an aggregate made
\* under another policy; it reads so at every later render, whatever
\* MultiErrorFormat holds by then.
C7_SingleCauseTextDefaultPolicy ==
    /\ (ret.op = "Wrap" /\ Len(Present(ret.causes)) = 1
            /\ MultiErrorFormat = DefaultPolicy
            /\ (Present(ret.causes)[1].kind = "multierror" =>
                    made[Present(ret.causes)[1].addr].policy = DefaultPolicy)) =>
           ErrorText(heap, ret.val)
               = ErrorStringText(ret.sentinel) \o ": "
                    \o ErrorText(heap, Present(ret.causes)[1])
    /\ (ret.op = "Render" /\ ret.err.kind = "sentinelError"
            /\ ret.err.wrapped # Nil
            /\ Len(heap[ret.err.wrapped.addr].Errors) = 1
            /\ made[ret.err.wrapped.addr].policy = DefaultPolicy) =>
           ret.text = ErrorStringText(ret.err.sentinel) \o ": "
                         \o ErrorText(heap, heap[ret.err.wrapped.addr].Errors[1])

\* A wrap of one cause made under the default policy was rendered while
\* MultiErrorFormat was nil.
C7_Witness ==
    /\ ret.op = "Render"
    /\ ret.err.kind = "sentinelError"
    /\ ret.err.wrapped # Nil
    /\ Len(heap[ret.err.wrapped.addr].Errors) = 1
    /\ made[ret.err.wrapped.addr].policy = DefaultPolicy
    /\ MultiErrorFormat = NilPolicy

\* The codes the protocol defines.
KnownCodes == {-1} \cup (0..88)

\* sub occurs in s.
Contains(s, sub) ==
    \E i \in 1..(Len(s) - Len(sub) + 1) : SubSeq(s, i, i + Len(sub) - 1) = sub

HasPrefix(s, pre) == Len(s) >= Len(pre) /\ SubSeq(s, 1, Len(pre)) = pre

\* C8: KError.Error answers for every int16 value.  A known code (-1, 0..88)
\* gets a non-empty table message and never the fallback; 0 says it is not an
\* error; 29 and -1 get their table entries; any other code gets the fallback
\* text ending in the code's decimal value, sign included.
C8_KErrorTotal ==
    kret.op = "Error" =>
        LET c == kret.code
            t == kret.text
        IN  /\ c \in KnownCodes =>
                   /\ Len(t) > 0
                   /\ HasPrefix(t, "kafka server: ")
                   /\ ~HasPrefix(t, "Unknown error")
            /\ c = 0 => Contains(t, "Not an error")
            /\ c = 29 =>
                   t = "kafka server: The client is not authorized to access this topic"
            /\ c = -1 => t = "kafka server: Unexpected (unknown?) server error"
            /\ c \notin KnownCodes =>
                   /\ t = "Unknown error, how did this happen? Error code = "
                             \o ToString(c)
                   /\ Contains(t, ToString(c))

\* The unknown code 9001 has been rendered and its text carries 9001.
C8_Witness ==
    /\ kret.op = "Error"
    /\ kret.code = 9001
    /\ Contains(kret.text, "9001")

\* What KError.Error returns for each known code.
KnownMessages == [k \in KnownCodes |-> KErrorText(k)]

\* C9: the message of a rendered code differs from the message of every
\* other known code: two distinct known codes never share a message, and the
\* fallback text of an unknown code is no known code's message.
C9_KErrorInjective ==
    kret.op = "Error" =>
        \A k \in KnownCodes : k # kret.code => KnownMessages[k] # kret.text

\* Code 30 has been rendered, next to code 29 whose message differs from it
\* in one word.
C9_Witness ==
    /\ kret.op = "Error"
    /\ kret.code = 30
    /\ kret.text = "kafka server: The client is not authorized to access this group"
    /\ KErrorText(29) # kret.text

\* C10: a render changes neither the aggregates nor MultiErrorFormat, and a
\* render of the same error straight after another gives the same text.
C10_RenderRepeatable ==
    /\ [](ret.op = "Render" =>
             \A i \in 1..Len(ret.prior) : ret.prior[i] = ret.text)
    /\ [][ret'.op = "Render" /\ ret' # ret =>
             heap' = heap /\ MultiErrorFormat' = MultiErrorFormat]_vars

\* A wrap of several causes was rendered twice in a row.
C10_Witness ==
    /\ ret.op = "Render"
    /\ ret.prior # <<>>
    /\ ret.err.kind = "sentinelError"
    /\ ret.err.wrapped # Nil
    /\ Len(heap[ret.err.wrapped.addr].Errors) >= 2

\* The non-absent leaf errors of es in order: absent entries dropped, and an
\* aggregate replaced by the leaves of its elements, however deep.
RECURSIVE Leaves(_, _)
Leaves(h, es) ==
    IF Len(es) = 0 THEN <<>>
    ELSE (CASE es[1].kind = "nil"        -> <<>>
            [] es[1].kind = "multierror" -> Leaves(h, h[es[1].addr].Errors)
            [] OTHER                     -> <<es[1]>>)
         \o Leaves(h, Tail(es))

\* C11: no aggregate ever has an aggregate or an absent entry among its direct
\* elements, and the wrapped error of Wrap(S, cs...) is absent when cs has no
\* leaf and otherwise an aggregate whose elements are exactly the non-absent
\* leaf errors of cs, in order, the elements of an aggregate among cs standing
\* at that aggregate's position.
C11_AggregationFlat ==
    /\ \A a \in 1..Len(heap) : \A i \in 1..Len(heap[a].Errors) :
           heap[a].Errors[i].kind \notin {"multierror", "nil"}
    /\ ret.op = "Wrap" =>
           LET ls == Leaves(heap, ret.causes)
           IN  IF Len(ls) = 0 THEN ret.val.wrapped = Nil
               ELSE /\ ret.val.wrapped.kind = "multierror"
                    /\ heap[ret.val.wrapped.addr].Errors = ls

\* Wrap was given an absent entry, then an aggregate of two errors obtained
\* from an earlier Wrap, then a third error; its wrapped error holds three.
C11_Witness ==
    /\ ret.op = "Wrap"
    /\ Len(ret.causes) = 3
    /\ ret.causes[1] = Nil
    /\ ret.causes[2].kind = "multierror"
    /\ Len(heap[ret.causes[2].addr].Errors) = 2
    /\ ret.causes[3].kind = "sentinelError"
    /\ Len(heap[ret.val.wrapped.addr].Errors) = 3
    /\ heap[ret.val.wrapped.addr].Errors[3] = ret.causes[3]

\* The errors handed to the operation whose record is r.
Arguments(r) ==
    CASE r.op = "Wrap"   -> {r.sentinel} \cup {r.causes[i] : i \in 1..Len(r.causes)}
      [] r.op = "Is"     -> {r.err, r.target}
      [] r.op = "Unwrap" -> {r.err}
      [] r.op = "Render" -> {r.err}
      [] OTHER           -> {}

\* C12: MultiErrorFormat changes only by an assignment, to the value assigned;
\* Wrap, Is, Unwrap and Error leave it alone.  Every step leaves each existing
\* aggregate with its elements and its formatter, and leaves each argument of
\* the operation with the same wrapped error, the same errors inside it and
\* the same text as before the call (nothing to compare in a step that leaves
\* every aggregate as it was).
C12_ArgumentsUnchanged ==
    [][/\ ret'.op = "SetFormat" /\ ret' # ret =>
              MultiErrorFormat' = ret'.policy
       /\ ~(ret'.op = "SetFormat" /\ ret' # ret) =>
              MultiErrorFormat' = MultiErrorFormat
       /\ Len(heap') >= Len(heap)
       /\ \A a \in 1..Len(heap) : heap'[a] = heap[a]
       /\ \A i \in 1..Len(made) : made'[i] = made[i]
       /\ ret' # ret =>
              \/ heap' = heap
              \/ \A e \in Arguments(ret') \ {Nil} :
                     /\ ErrorsUnwrap(heap', e) = ErrorsUnwrap(heap, e)
                     /\ Reachable(heap', e) = Reachable(heap, e)
                     /\ ErrorText(heap', e) = ErrorText(heap, e)]_vars

\* After MultiErrorFormat was reassigned, Wrap was given an aggregate of two
\* errors made under the default formatter, followed by another error: the
\* old aggregate still holds its two errors and its formatter, the new one
\* holds three.
C12_Witness ==
    /\ ret.op = "Wrap"
    /\ Len(ret.causes) = 2
    /\ ret.causes[1].kind = "multierror"
    /\ ret.causes[2] # Nil
    /\ MultiErrorFormat = CustomPolicy
    /\ heap[ret.causes[1].addr].ErrorFormat = DefaultPolicy
    /\ Len(heap[ret.causes[1].addr].Errors) = 2
    /\ ret.val.wrapped # ret.causes[1]
    /\ Len(heap[ret.val.wrapped.addr].Errors) = 3

=============================================================================
